---- MODULE Spec2Model ----
(***************************************************************************)
(* Model of the "Ratify" backend (src/server.cjs, src/server.js): a club   *)
(* roster and a list of candidates kept in data.json, a vote tally         *)
(* (recomputeStatus) and the HTTP handlers that load the file, change it   *)
(* and save it.  Every handler is synchronous, so one handler is one step. *)
(*                                                                         *)
(* Strings that the code only compares (member names, ids, statuses) are   *)
(* TLA+ strings.  Strings that the code slices or changes the case of      *)
(* (firstName, lastInitial) are sequences of one-character strings.  A     *)
(* JSON value of a request body whose type the code tests (vote) is its    *)
(* JSON text: "true", "false", "\"yes\"".  notes and createdAt of a        *)
(* candidate are never read by the code and are left out.                  *)
(***************************************************************************)
EXTENDS Integers, Sequences, FiniteSets, TLC

VARIABLES
    fileExists,   \* fs.existsSync(DATA_PATH)
    members,      \* data.json .members   (<<>> while the file does not exist)
    candidates,   \* data.json .candidates
    res,          \* the response of the last request handled
    tc,           \* tally check: the candidate object handed to recomputeStatus
    tm,           \* tally check: the membersArr handed to recomputeStatus
    tc0,          \* tally check: the candidate before the first application
    tm0,          \* tally check: membersArr before the first application
    thist,        \* tally check: the candidate after each application so far
    conc,         \* concurrent requests: those issued, the handler on the
                  \* call stack with the data it loaded, those answered
    relay,        \* alias relay: sessions, listeners, what was written to
                  \* each SSE client
    auth,         \* /auth and /auth/2: FAILED, the clock, and what the
                  \* requests so far did
    bridge        \* mailbox bridge: sessions by token, the clock, the
                  \* tokens issued and logged out

vars == <<fileExists, members, candidates, res, tc, tm, tc0, tm0, thist, conc, relay,
         auth, bridge>>
svcVars == <<fileExists, members, candidates, res>>
tallyVars == <<tc, tm, tc0, tm0, thist>>
otherVars == <<conc, relay, auth, bridge>>

----------------------------------------------------------------------------
(* Bounds of the model *)

\* successful POST /members requests between two resets
MaxNewMembers == 1
\* stored candidates
MaxCandidates == 1
\* roster length of the tally check
MaxRoster == 2
\* applications of recomputeStatus in the tally check
MaxApply == 2
\* stored candidates in the check of candidate pairs
MaxPair == 2
MaxInflight == 2
MaxSessions == 2
MaxMessages == 2
MaxTicks == 6
MaxBridgeTicks == 64

----------------------------------------------------------------------------
(* Values *)

\* the key of a JS object that is an accessor of Object.prototype: assigning
\* a boolean to it is ignored and creates no own property
PROTO == "__proto__"

\* names a POST /members request may carry ("" is a missing name)
NewNames == {"Eve", PROTO}
\* pins a request may carry ("" is a missing pin)
Pins == {"", "9999"}

\* ids makeId can return (two candidates can draw the same id)
Ids == {"k3J_a9-Qx", "Zp0wR2bTq"}

Statuses == {"banned", "allowed", "pending"}

\* firstName / lastInitial inputs (<<>> is a missing or empty string)
FirstNames == {<<>>, <<"A", "l">>}
LastInitials == {<<>>, <<"x", "y">>, <<"X">>}

\* the header x-admin-secondary
SECRET == "STARTUP_SECONDARY"
AdminHeaders == {SECRET, "000000000000000"}

----------------------------------------------------------------------------
(* bcrypt *)

\* bcrypt.hashSync(String(pin), 10): a digest that is not the pin; the random
\* salt is not modelled (nothing but compareSync reads the hash)
hashSync(pin) == <<"$2a$10$", pin>>
compareSync(pin, hash) == hash = hashSync(pin)

----------------------------------------------------------------------------
(* String helpers *)

\* the letter U+0131 (dotless i): its upper case is "I", and it is its own
\* lower case
DotlessI == "U+0131"

toLowerCaseChar(ch) ==
    CASE ch = "A" -> "a"
      [] ch = "I" -> "i"
      [] ch = "X" -> "x"
      [] ch = "Y" -> "y"
      [] ch = "L" -> "l"
      [] ch = "B" -> "b"
      [] ch = "J" -> "j"
      [] ch = "W" -> "w"
      [] OTHER -> ch

toUpperCaseChar(ch) ==
    CASE ch = "a" -> "A"
      [] ch = "i" -> "I"
      [] ch = DotlessI -> "I"
      [] ch = "x" -> "X"
      [] ch = "y" -> "Y"
      [] ch = "l" -> "L"
      [] ch = "b" -> "B"
      [] ch = "j" -> "J"
      [] ch = "w" -> "W"
      [] OTHER -> ch

toLowerCase(s) == [i \in DOMAIN s |-> toLowerCaseChar(s[i])]
toUpperCase(s) == [i \in DOMAIN s |-> toUpperCaseChar(s[i])]

\* String(x).slice(0,1)
slice01(s) == IF Len(s) = 0 THEN <<>> ELSE <<s[1]>>

----------------------------------------------------------------------------
(* JS objects used as maps *)

\* o[k] = v
ObjSet(o, k, v) ==
    IF k = PROTO THEN o
    ELSE [x \in (DOMAIN o) \cup {k} |-> IF x = k THEN v ELSE o[x]]

\* o[k] === b for a boolean b (a missing key reads as undefined, PROTO as
\* Object.prototype unless it is an own property)
ObjIs(o, k, b) == k \in DOMAIN o /\ o[k] = b

EmptyObj == [x \in {} |-> TRUE]

----------------------------------------------------------------------------
(* The tally *)

memberNamesOf(membersArr) == [i \in DOMAIN membersArr |-> membersArr[i].name]

\* recomputeStatus with the vote count also required for allYes
recomputeStatusCountedYes(c, membersArr) ==
    LET names == memberNamesOf(membersArr)
        votes == c.votes
        total == Len(names)
        votedCount == Cardinality(DOMAIN votes)
        allYes == total > 0 /\ votedCount = total
                  /\ \A i \in DOMAIN names : ObjIs(votes, names[i], TRUE)
        allNo == total > 0 /\ votedCount = total
                 /\ \A i \in DOMAIN names : ObjIs(votes, names[i], FALSE)
    IN  IF allYes THEN [c EXCEPT !.status = "banned", !.ratified = TRUE,
                                 !.totalMembers = total]
        ELSE IF allNo THEN [c EXCEPT !.status = "allowed", !.ratified = FALSE,
                                     !.totalMembers = total]
        ELSE [c EXCEPT !.status = "pending", !.ratified = FALSE,
                       !.totalMembers = total]

\* recomputeStatus with allNo comparing the vote count to the yes count
recomputeStatusNoCount(c, membersArr) ==
    LET names == memberNamesOf(membersArr)
        votes == c.votes
        total == Len(names)
        votedCount == Cardinality({k \in DOMAIN votes : votes[k] = TRUE})
        allYes == total > 0 /\ \A i \in DOMAIN names : ObjIs(votes, names[i], TRUE)
        allNo == total > 0 /\ votedCount = total
                 /\ \A i \in DOMAIN names : ObjIs(votes, names[i], FALSE)
    IN  IF allYes THEN [c EXCEPT !.status = "banned", !.ratified = TRUE,
                                 !.totalMembers = total]
        ELSE IF allNo THEN [c EXCEPT !.status = "allowed", !.ratified = FALSE,
                                     !.totalMembers = total]
        ELSE [c EXCEPT !.status = "pending", !.ratified = FALSE,
                       !.totalMembers = total]

\* recomputeStatus with a missing vote read as agreement (votes[n] !== false)
recomputeStatusMissingYes(c, membersArr) ==
    LET names == memberNamesOf(membersArr)
        votes == c.votes
        total == Len(names)
        votedCount == Cardinality(DOMAIN votes)
        allYes == total > 0 /\ \A i \in DOMAIN names : ~ObjIs(votes, names[i], FALSE)
        allNo == total > 0 /\ votedCount = total
                 /\ \A i \in DOMAIN names : ObjIs(votes, names[i], FALSE)
    IN  IF allYes THEN [c EXCEPT !.status = "banned", !.ratified = TRUE,
                                 !.totalMembers = total]
        ELSE IF allNo THEN [c EXCEPT !.status = "allowed", !.ratified = FALSE,
                                     !.totalMembers = total]
        ELSE [c EXCEPT !.status = "pending", !.ratified = FALSE,
                       !.totalMembers = total]

\* recomputeStatus that clears the votes of a candidate it has decided
recomputeStatusClearing(c, membersArr) ==
    LET names == memberNamesOf(membersArr)
        votes == c.votes
        total == Len(names)
        votedCount == Cardinality(DOMAIN votes)
        allYes == total > 0 /\ \A i \in DOMAIN names : ObjIs(votes, names[i], TRUE)
        allNo == total > 0 /\ votedCount = total
                 /\ \A i \in DOMAIN names : ObjIs(votes, names[i], FALSE)
    IN  IF allYes THEN [c EXCEPT !.status = "banned", !.ratified = TRUE,
                                 !.totalMembers = total, !.votes = EmptyObj]
        ELSE IF allNo THEN [c EXCEPT !.status = "allowed", !.ratified = FALSE,
                                     !.totalMembers = total, !.votes = EmptyObj]
        ELSE [c EXCEPT !.status = "pending", !.ratified = FALSE,
                       !.totalMembers = total]

\* recomputeStatus whose unanimity tests do not ask for a member
recomputeStatusNoTotal(c, membersArr) ==
    LET names == memberNamesOf(membersArr)
        votes == c.votes
        total == Len(names)
        votedCount == Cardinality(DOMAIN votes)
        allYes == \A i \in DOMAIN names : ObjIs(votes, names[i], TRUE)
        allNo == votedCount = total
                 /\ \A i \in DOMAIN names : ObjIs(votes, names[i], FALSE)
    IN  IF allYes THEN [c EXCEPT !.status = "banned", !.ratified = TRUE,
                                 !.totalMembers = total]
        ELSE IF allNo THEN [c EXCEPT !.status = "allowed", !.ratified = FALSE,
                                     !.totalMembers = total]
        ELSE [c EXCEPT !.status = "pending", !.ratified = FALSE,
                       !.totalMembers = total]

recomputeStatus(c, membersArr) ==
    LET names == memberNamesOf(membersArr)
        votes == c.votes
        total == Len(names)
        votedCount == Cardinality(DOMAIN votes)
        allYes == total > 0 /\ \A i \in DOMAIN names : ObjIs(votes, names[i], TRUE)
        allNo == total > 0 /\ votedCount = total
                 /\ \A i \in DOMAIN names : ObjIs(votes, names[i], FALSE)
    IN  IF allYes THEN [c EXCEPT !.status = "banned", !.ratified = TRUE,
                                 !.totalMembers = total]
        ELSE IF allNo THEN [c EXCEPT !.status = "allowed", !.ratified = FALSE,
                                     !.totalMembers = total]
        ELSE [c EXCEPT !.status = "pending", !.ratified = FALSE,
                       !.totalMembers = total]

\* recomputeAll that leaves a decided candidate as it is
recomputeAllKeepDecided(d) ==
    [d EXCEPT !.candidates =
        [i \in DOMAIN d.candidates |->
            IF d.candidates[i].status = "pending"
            THEN recomputeStatus(d.candidates[i], d.members)
            ELSE d.candidates[i]]]

recomputeAll(d) ==
    [d EXCEPT !.candidates =
        [i \in DOMAIN d.candidates |-> recomputeStatus(d.candidates[i], d.members)]]

----------------------------------------------------------------------------
(* The data file *)

BootstrapRaw == <<
    [name |-> "Daniel", pin |-> "0623"],
    [name |-> "David", pin |-> "0305"],
    [name |-> "Arnoldo", pin |-> "0716"],
    [name |-> "Callen", pin |-> "0621"],
    [name |-> "William", pin |-> "0115"] >>

bootstrapData ==
    [members |-> [i \in DOMAIN BootstrapRaw |->
                    [name |-> BootstrapRaw[i].name,
                     pinHash |-> hashSync(BootstrapRaw[i].pin)]],
     candidates |-> <<>>]

\* load(): bootstrapData() writes the file when it does not exist
load == IF fileExists THEN [members |-> members, candidates |-> candidates]
        ELSE bootstrapData

\* save(d); also the state of the file after a load() that is not followed
\* by a save (d = load)
save(d) ==
    /\ fileExists' = TRUE
    /\ members' = d.members
    /\ candidates' = d.candidates

memberNames(d) == memberNamesOf(d.members)

----------------------------------------------------------------------------
(* Responses and the outcome of a handler *)

NoCandidate == <<>>

\* res.status(code).json({error | message, candidate})
Response(code, error, message, cand) ==
    [code |-> code, error |-> error, message |-> message, candidate |-> cand]

\* what a handler leaves behind: whether it called load(), the content of
\* the file when it returns, and its response
Outcome(loaded, file, r) == [loaded |-> loaded, file |-> file, res |-> r]

\* the handler never reached load()
Early(code, error) == Outcome(FALSE, load, Response(code, error, "", NoCandidate))
\* the handler returned after load() without save()
Reject(code, error) == Outcome(TRUE, load, Response(code, error, "", NoCandidate))

Apply(o) ==
    /\ res' = o.res
    /\ IF o.loaded THEN save(o.file)
       ELSE UNCHANGED <<fileExists, members, candidates>>

\* Array.prototype.findIndex + 1 (0 when nothing matches)
findIndex(cands, id) ==
    IF \E i \in DOMAIN cands : cands[i].id = id
    THEN CHOOSE i \in DOMAIN cands :
            /\ cands[i].id = id
            /\ \A j \in DOMAIN cands : cands[j].id = id => i <= j
    ELSE 0

hasMember(d, name) == \E i \in DOMAIN d.members : d.members[i].name = name

splice1(s, idx) == SubSeq(s, 1, idx - 1) \o SubSeq(s, idx + 1, Len(s))

\* names.forEach(n => { o[n] = yes; })
RECURSIVE forEachVote(_, _, _)
forEachVote(names, yes, o) ==
    IF names = <<>> THEN o
    ELSE forEachVote(Tail(names), yes, ObjSet(o, Head(names), yes))

\* c.votes = {}; memberNames(d).forEach(n => { c.votes[n] = yes; })
allVotes(names, yes) == forEachVote(names, yes, EmptyObj)

----------------------------------------------------------------------------
(* Handlers *)

\* POST /members without the recomputeAll before the save
postMembersNoRecompute(name, pin) ==
    IF name = "" \/ pin = "" THEN Early(400, "name and pin required")
    ELSE LET d == load IN
         IF hasMember(d, name) THEN Reject(409, "member exists")
         ELSE LET d1 == [d EXCEPT !.members =
                             Append(@, [name |-> name, pinHash |-> hashSync(pin)])]
              IN  Outcome(TRUE, d1, Response(200, "", "member added", NoCandidate))

\* POST /members without the check for an existing name
postMembersNoExistsCheck(name, pin) ==
    IF name = "" \/ pin = "" THEN Early(400, "name and pin required")
    ELSE LET d == load
             d1 == [d EXCEPT !.members =
                        Append(@, [name |-> name, pinHash |-> hashSync(pin)])]
             d2 == recomputeAll(d1)
         IN  Outcome(TRUE, d2, Response(200, "", "member added", NoCandidate))

\* POST /members that runs recomputeAll before it pushes the member
postMembersRecomputeFirst(name, pin) ==
    IF name = "" \/ pin = "" THEN Early(400, "name and pin required")
    ELSE LET d == load IN
         IF hasMember(d, name) THEN Reject(409, "member exists")
         ELSE LET d1 == recomputeAll(d)
                  d2 == [d1 EXCEPT !.members =
                             Append(@, [name |-> name, pinHash |-> hashSync(pin)])]
              IN  Outcome(TRUE, d2, Response(200, "", "member added", NoCandidate))

\* POST /members
postMembers(name, pin) ==
    IF name = "" \/ pin = "" THEN Early(400, "name and pin required")
    ELSE LET d == load IN
         IF hasMember(d, name) THEN Reject(409, "member exists")
         ELSE LET d1 == [d EXCEPT !.members =
                             Append(@, [name |-> name, pinHash |-> hashSync(pin)])]
                  d2 == recomputeAll(d1)
              IN  Outcome(TRUE, d2, Response(200, "", "member added", NoCandidate))

\* GET /members
getMembers == Outcome(TRUE, load, Response(200, "", "members", NoCandidate))

\* GET /candidates: the recomputed list is returned and not saved
getCandidates == Outcome(TRUE, load, Response(200, "", "candidates", NoCandidate))

\* POST /candidates
postCandidates(firstName, lastInitial, newId) ==
    IF firstName = <<>> \/ lastInitial = <<>>
    THEN Early(400, "firstName and lastInitial required")
    ELSE LET d == load
             dupe == \E i \in DOMAIN d.candidates :
                        /\ toLowerCase(d.candidates[i].firstName) = toLowerCase(firstName)
                        /\ toLowerCase(d.candidates[i].lastInitial)
                              = toLowerCase(slice01(lastInitial))
         IN  IF dupe THEN Reject(409, "name already exists")
             ELSE LET candidate == [id |-> newId,
                                    firstName |-> firstName,
                                    lastInitial |-> toUpperCase(slice01(lastInitial)),
                                    votes |-> EmptyObj,
                                    status |-> "pending",
                                    ratified |-> FALSE,
                                    totalMembers |-> Len(load.members)]
                      d1 == [d EXCEPT !.candidates = Append(@, candidate)]
                      d2 == recomputeAll(d1)
                  IN  Outcome(TRUE, d2,
                              Response(200, "", "candidate added",
                                       <<d2.candidates[Len(d2.candidates)]>>))

\* POST /vote that records and saves the vote before it looks the member up
postVoteLateCheck(candidateId, memberName, vote) ==
    IF candidateId = "" \/ memberName = "" \/ vote \notin {"true", "false"}
    THEN Early(400, "candidateId, memberName, vote(boolean) required")
    ELSE LET d == load
             idx == findIndex(d.candidates, candidateId)
         IN  IF idx = 0 THEN Reject(404, "candidate not found")
             ELSE LET c == d.candidates[idx]
                      c1 == [c EXCEPT !.votes = ObjSet(@, memberName, vote = "true")]
                      c2 == recomputeStatus(c1, d.members)
                      d1 == [d EXCEPT !.candidates[idx] = c2]
                  IN  IF ~hasMember(d, memberName)
                      THEN Outcome(TRUE, d1,
                                   Response(400, "member not recognized", "", NoCandidate))
                      ELSE Outcome(TRUE, d1, Response(200, "", "vote recorded", <<c2>>))

\* POST /vote that stores !vote instead of !!vote
postVoteNegated(candidateId, memberName, vote) ==
    IF candidateId = "" \/ memberName = "" \/ vote \notin {"true", "false"}
    THEN Early(400, "candidateId, memberName, vote(boolean) required")
    ELSE LET d == load
             idx == findIndex(d.candidates, candidateId)
         IN  IF idx = 0 THEN Reject(404, "candidate not found")
             ELSE IF ~hasMember(d, memberName) THEN Reject(400, "member not recognized")
             ELSE LET c == d.candidates[idx]
                      c1 == [c EXCEPT !.votes = ObjSet(@, memberName, vote # "true")]
                      c2 == recomputeStatus(c1, d.members)
                      d1 == [d EXCEPT !.candidates[idx] = c2]
                  IN  Outcome(TRUE, d1, Response(200, "", "vote recorded", <<c2>>))

\* POST /vote without the lookup of the member
postVoteNoMemberCheck(candidateId, memberName, vote) ==
    IF candidateId = "" \/ memberName = "" \/ vote \notin {"true", "false"}
    THEN Early(400, "candidateId, memberName, vote(boolean) required")
    ELSE LET d == load
             idx == findIndex(d.candidates, candidateId)
         IN  IF idx = 0 THEN Reject(404, "candidate not found")
             ELSE LET c == d.candidates[idx]
                      c1 == [c EXCEPT !.votes = ObjSet(@, memberName, vote = "true")]
                      c2 == recomputeStatus(c1, d.members)
                      d1 == [d EXCEPT !.candidates[idx] = c2]
                  IN  Outcome(TRUE, d1, Response(200, "", "vote recorded", <<c2>>))

\* POST /vote from the load() on: d is what load() returned
postVoteOn(d, candidateId, memberName, vote) ==
    LET idx == findIndex(d.candidates, candidateId)
    IN  IF idx = 0
        THEN Outcome(TRUE, d, Response(404, "candidate not found", "", NoCandidate))
        ELSE IF ~hasMember(d, memberName)
        THEN Outcome(TRUE, d, Response(400, "member not recognized", "", NoCandidate))
        ELSE LET c == d.candidates[idx]
                 c1 == [c EXCEPT !.votes = ObjSet(@, memberName, vote = "true")]
                 c2 == recomputeStatus(c1, d.members)
                 d1 == [d EXCEPT !.candidates[idx] = c2]
             IN  Outcome(TRUE, d1, Response(200, "", "vote recorded", <<c2>>))

\* POST /vote
postVote(candidateId, memberName, vote) ==
    IF candidateId = "" \/ memberName = "" \/ vote \notin {"true", "false"}
    THEN Early(400, "candidateId, memberName, vote(boolean) required")
    ELSE postVoteOn(load, candidateId, memberName, vote)

\* PATCH /candidates/:id, case 'setStatus' with a valid status: the fields
\* written before recomputeStatus runs
setStatus(c, names, status) ==
    [c EXCEPT !.status = status,
              !.ratified = (status = "banned"),
              !.votes = IF status \in {"banned", "allowed"}
                        THEN allVotes(names, status = "banned")
                        ELSE EmptyObj]

\* PATCH /candidates/:id whose setStatus pending keeps the votes
patchCandidateKeepVotes(id, action, status) ==
    LET d == load
        idx == findIndex(d.candidates, id)
    IN  IF idx = 0 THEN Reject(404, "candidate not found")
        ELSE LET c == d.candidates[idx] IN
             CASE action = "reopen" ->
                    LET c1 == [c EXCEPT !.votes = EmptyObj, !.status = "pending",
                                        !.ratified = FALSE]
                        c2 == recomputeStatus(c1, d.members)
                    IN  Outcome(TRUE, [d EXCEPT !.candidates[idx] = c2],
                                Response(200, "", "updated", <<c2>>))
               [] action = "delete" ->
                    Outcome(TRUE, [d EXCEPT !.candidates = splice1(@, idx)],
                            Response(200, "", "deleted", NoCandidate))
               [] action = "setStatus" ->
                    IF status \notin {"banned", "allowed", "pending"}
                    THEN Reject(400, "invalid status")
                    ELSE LET c1 == [c EXCEPT
                                      !.status = status,
                                      !.ratified = (status = "banned"),
                                      !.votes = IF status \in {"banned", "allowed"}
                                                THEN allVotes(memberNames(d), status = "banned")
                                                ELSE @]
                             c2 == recomputeStatus(c1, d.members)
                         IN  Outcome(TRUE, [d EXCEPT !.candidates[idx] = c2],
                                     Response(200, "", "updated", <<c2>>))
               [] OTHER -> Reject(400, "unknown action")

\* PATCH /candidates/:id
patchCandidate(id, action, status) ==
    LET d == load
        idx == findIndex(d.candidates, id)
    IN  IF idx = 0 THEN Reject(404, "candidate not found")
        ELSE LET c == d.candidates[idx] IN
             CASE action = "reopen" ->
                    LET c1 == [c EXCEPT !.votes = EmptyObj, !.status = "pending",
                                        !.ratified = FALSE]
                        c2 == recomputeStatus(c1, d.members)
                    IN  Outcome(TRUE, [d EXCEPT !.candidates[idx] = c2],
                                Response(200, "", "updated", <<c2>>))
               [] action = "delete" ->
                    Outcome(TRUE, [d EXCEPT !.candidates = splice1(@, idx)],
                            Response(200, "", "deleted", NoCandidate))
               [] action = "setStatus" ->
                    IF status \notin {"banned", "allowed", "pending"}
                    THEN Reject(400, "invalid status")
                    ELSE LET c1 == setStatus(c, memberNames(d), status)
                             c2 == recomputeStatus(c1, d.members)
                         IN  Outcome(TRUE, [d EXCEPT !.candidates[idx] = c2],
                                     Response(200, "", "updated", <<c2>>))
               [] OTHER -> Reject(400, "unknown action")

\* POST /admin/reset (src/server.cjs only)
adminReset(hdr) ==
    IF hdr # SECRET
    THEN Outcome(FALSE, load, Response(401, "unauthorized", "", NoCandidate))
    ELSE Outcome(TRUE, bootstrapData, Response(200, "", "ok", NoCandidate))

----------------------------------------------------------------------------
(* Actions of the service *)

PostMembers(name, pin) ==
    /\ LET o == postMembers(name, pin)
       IN  /\ Len(o.file.members) <= Len(BootstrapRaw) + MaxNewMembers
           /\ Apply(o)
    /\ UNCHANGED <<tallyVars, otherVars>>

GetMembers == Apply(getMembers) /\ UNCHANGED <<tallyVars, otherVars>>

GetCandidates == Apply(getCandidates) /\ UNCHANGED <<tallyVars, otherVars>>

PostCandidates(firstName, lastInitial, newId) ==
    /\ LET o == postCandidates(firstName, lastInitial, newId)
       IN  /\ Len(o.file.candidates) <= MaxCandidates
           /\ Apply(o)
    /\ UNCHANGED <<tallyVars, otherVars>>

PostVote(candidateId, memberName, vote) ==
    Apply(postVote(candidateId, memberName, vote)) /\ UNCHANGED <<tallyVars, otherVars>>

PatchCandidate(id, action, status) ==
    Apply(patchCandidate(id, action, status)) /\ UNCHANGED <<tallyVars, otherVars>>

AdminReset(hdr) == Apply(adminReset(hdr)) /\ UNCHANGED <<tallyVars, otherVars>>

\* inputs of the requests
BootstrapNames == {BootstrapRaw[i].name : i \in DOMAIN BootstrapRaw}
\* names a request can give as a voter: the bootstrap members and the names
\* a POST /members can add
VoterNames == BootstrapNames \cup NewNames
\* bodies of POST /vote: the well-formed ones, and one of each malformed kind
\* ("" is a missing field)
VoteRequests ==
    {<<id, m, v>> : id \in Ids, m \in VoterNames, v \in {"true", "false"}}
    \cup {<<"", "Daniel", "true">>, <<"k3J_a9-Qx", "", "true">>,
          <<"k3J_a9-Qx", "Daniel", "\"yes\"">>}
\* name of POST /members
MemberNameInputs == {"", "Daniel"} \cup NewNames
\* bodies of POST /candidates
CandidateRequests ==
    {<<f, l>> : f \in FirstNames \ {<<>>}, l \in LastInitials \ {<<>>}}
    \cup {<<<<>>, <<"x", "y">>>>, <<<<"A", "l">>, <<>>>>}
\* action and status of PATCH /candidates/:id ("" is a missing status)
PatchInputs ==
    {<<a, "">> : a \in {"reopen", "delete", "setStatus", "archive"}}
    \cup {<<"setStatus", s>> : s \in Statuses \cup {"rejected"}}

NoResponse == Response(0, "", "", NoCandidate)
IdleCandidate == [votes |-> EmptyObj, status |-> "pending", ratified |-> FALSE,
                  totalMembers |-> 0]
\* the names /auth keeps a FAILED entry for
AuthNames == {"Daniel", "David", "Mallory"}
\* FAILED = {} (an absent entry is <<>>), the clock at the start, and no
\* request answered yet.  Of the requests so far, per name: streak counts
\* the 401 answers since the last 200, streakStart and fifthAt are the times
\* of the first and the fifth of them, fresh counts the 401 answers since
\* the last 200 or the last lock, lockFails is fresh at the last lock;
\* pinPassed: /auth has answered need2fa; lastGood: the last request
\* carried the right PIN or secondary code of its member; subject: the member the requests
\* of this run are about (the entries of FAILED do not depend on each other).
IdleAuth == [FAILED |-> [n \in AuthNames |-> <<>>],
             now |-> 0,
             streak |-> [n \in AuthNames |-> 0],
             streakStart |-> [n \in AuthNames |-> 0],
             fifthAt |-> [n \in AuthNames |-> 0],
             fresh |-> [n \in AuthNames |-> 0],
             lockFails |-> [n \in AuthNames |-> 0],
             pinPassed |-> FALSE,
             lastGood |-> FALSE,
             subject |-> "Daniel"]
\* the tokens newToken() returns
Tokens == {"uuid-1", "uuid-2"}
\* the mailbox bridge as it starts: no session, the clock at the start, the
\* prune timer not yet run, no token issued or logged out, no answer yet
IdleBridge == [sessions |-> {}, now |-> 0, pruned |-> 0,
               issuedAt |-> [t \in Tokens |-> 0 - 1], loggedOut |-> {},
               out |-> 0]
\* no concurrent request issued
IdleConc == [file0 |-> bootstrapData, todo |-> {}, active |-> {}, done |-> {}]
\* the SSE connections (res objects) the relay can be asked for
Clients == {"res1", "res2"}
\* no response of the relay yet
NoReply == [code |-> 0, alias |-> <<>>, email |-> <<>>, messages |-> <<>>]
\* the relay as it starts: no session, no listener, nothing written
IdleRelay == [sessions |-> <<>>, listeners |-> {},
              conn |-> [c \in Clients |-> [state |-> "none", alias |-> <<>>]],
              sent |-> [c \in Clients |-> <<>>],
              out |-> NoReply]

Init ==
    /\ fileExists = FALSE
    /\ members = <<>>
    /\ candidates = <<>>
    /\ res = NoResponse
    /\ tc = IdleCandidate
    /\ tc0 = IdleCandidate
    /\ tm = <<>>
    /\ tm0 = <<>>
    /\ thist = <<>>
    /\ conc = IdleConc
    /\ relay = IdleRelay
    /\ auth = IdleAuth
    /\ bridge = IdleBridge

Next ==
    \/ \E name \in MemberNameInputs, pin \in Pins : PostMembers(name, pin)
    \/ GetMembers
    \/ GetCandidates
    \/ \E r \in CandidateRequests, newId \in Ids : PostCandidates(r[1], r[2], newId)
    \/ \E r \in VoteRequests : PostVote(r[1], r[2], r[3])
    \/ \E id \in Ids, p \in PatchInputs : PatchCandidate(id, p[1], p[2])
    \/ \E hdr \in AdminHeaders : AdminReset(hdr)

Spec == Init /\ [][Next]_vars

\* the service with no admin request (PATCH, reset): members and candidates
\* are added and votes are cast
NextVoting ==
    \/ \E name \in MemberNameInputs, pin \in Pins : PostMembers(name, pin)
    \/ \E r \in CandidateRequests, newId \in Ids : PostCandidates(r[1], r[2], newId)
    \/ \E r \in VoteRequests : PostVote(r[1], r[2], r[3])

SpecVoting == Init /\ [][NextVoting]_vars

\* The service with up to MaxPair candidates.  The roster stays the bootstrap
\* roster and one member votes; setStatus gives the other vote maps.
PairCandidateRequests ==
    {<<f, l>> : f \in {<<"A", "l">>, <<"a", "l">>},
                l \in {<<"x", "y">>, <<"X">>, <<DotlessI>>}}
PairVoteRequests == {<<id, "Daniel", v>> : id \in Ids, v \in {"true", "false"}}

PostCandidatesPair(firstName, lastInitial, newId) ==
    /\ LET o == postCandidates(firstName, lastInitial, newId)
       IN  /\ Len(o.file.candidates) <= MaxPair
           /\ Apply(o)
    /\ UNCHANGED <<tallyVars, otherVars>>

NextPair ==
    \/ \E r \in PairCandidateRequests, newId \in Ids :
          PostCandidatesPair(r[1], r[2], newId)
    \/ \E r \in PairVoteRequests : PostVote(r[1], r[2], r[3])
    \/ \E id \in Ids, p \in PatchInputs : PatchCandidate(id, p[1], p[2])

SpecPair == Init /\ [][NextPair]_vars

----------------------------------------------------------------------------
(* Requests issued concurrently.  A handler is one synchronous callback:     *)
(* load() and save(d) are readFileSync / writeFileSync and nothing between   *)
(* them awaits, so the host starts no other handler until it has returned.   *)
(* conc.todo holds the requests received and not yet handled, conc.active    *)
(* the handlers that have loaded and not yet saved, conc.done the handled    *)
(* requests, conc.file0 the file before the first of them.                   *)

\* the candidate every concurrent vote is about
ConcId == "k3J_a9-Qx"

\* well-formed bodies of POST /vote: votes of two members, of a name not on
\* the roster, and on an id that is not stored
ConcRequests ==
    {<<ConcId, m, v>> : m \in {"Daniel", "David"}, v \in {"true", "false"}}
    \cup {<<ConcId, "Eve", "true">>, <<"Zp0wR2bTq", "Daniel", "true">>}

\* vote maps of the stored candidate before the requests
ConcVotes == {EmptyObj, allVotes(<<"Arnoldo", "Callen", "William">>, TRUE)}

InitConc ==
    /\ fileExists = TRUE
    /\ members = bootstrapData.members
    /\ \E v \in ConcVotes :
          candidates = <<recomputeStatus([id |-> ConcId,
                                          firstName |-> <<"A", "l">>,
                                          lastInitial |-> <<"X">>,
                                          votes |-> v,
                                          status |-> "pending",
                                          ratified |-> FALSE,
                                          totalMembers |-> Len(BootstrapRaw)],
                                         bootstrapData.members)>>
    /\ res = NoResponse
    /\ tc = IdleCandidate
    /\ tc0 = IdleCandidate
    /\ tm = <<>>
    /\ tm0 = <<>>
    /\ thist = <<>>
    /\ \E todo \in SUBSET ConcRequests :
          /\ Cardinality(todo) <= MaxInflight
          /\ conc = [file0 |-> [members |-> members, candidates |-> candidates],
                     todo |-> todo, active |-> {}, done |-> {}]
    /\ relay = IdleRelay
    /\ auth = IdleAuth
    /\ bridge = IdleBridge

\* a handler that never yields lets another start
DispatchableAnytime == TRUE

\* the host calls the next handler only when the running one has returned
Dispatchable == conc.active = {}

\* the handler of request r starts and runs up to the return of load()
BeginVote(r) ==
    /\ r \in conc.todo
    /\ Dispatchable
    /\ conc' = [conc EXCEPT !.todo = @ \ {r},
                            !.active = @ \cup {[req |-> r, d |-> load]}]
    /\ UNCHANGED <<svcVars, tallyVars, relay, auth, bridge>>

\* the handler goes on from the d it loaded: modify, save(d), respond
FinishVote(a) ==
    /\ a \in conc.active
    /\ Apply(postVoteOn(a.d, a.req[1], a.req[2], a.req[3]))
    /\ conc' = [conc EXCEPT !.active = @ \ {a}, !.done = @ \cup {a.req}]
    /\ UNCHANGED <<tallyVars, relay, auth, bridge>>

NextConc ==
    \/ \E r \in ConcRequests : BeginVote(r)
    \/ \E a \in conc.active : FinishVote(a)

SpecConc == InitConc /\ [][NextConc]_vars

----------------------------------------------------------------------------
(* The alias relay (src/unnamed/part_000, second program).  Strings are      *)
(* sequences of characters.  relay.sessions is the Map alias -> session in   *)
(* insertion order, relay.listeners the Map alias -> Set(res) as a set of    *)
(* entries, relay.conn the state of each SSE connection, relay.sent what was *)
(* written to it, relay.out the last JSON response.                          *)

LowerLetters == {"a", "b", "c", "d", "e", "f", "g", "h", "i", "j", "k", "l", "m",
                 "n", "o", "p", "q", "r", "s", "t", "u", "v", "w", "x", "y", "z"}
UpperLetters == {"A", "B", "C", "D", "E", "F", "G", "H", "I", "J", "K", "L", "M",
                 "N", "O", "P", "Q", "R", "S", "T", "U", "V", "W", "X", "Y", "Z"}
Digits == {"0", "1", "2", "3", "4", "5", "6", "7", "8", "9"}

INBOUND_DOMAIN == <<"i", "n", ".", "n", "u", "l", "l", "r", "e", "f", ".", "c", "o", "m">>
LocalPartMax == 64

\* a character that /[^a-z0-9-]/gi leaves in place
LocalChar(ch) == ch \in LowerLetters \cup UpperLetters \cup Digits \cup {"-"}

RECURSIVE trimStart(_)
trimStart(s) == IF s # <<>> /\ s[1] = " " THEN trimStart(Tail(s)) ELSE s

RECURSIVE trimEnd(_)
trimEnd(s) ==
    IF s # <<>> /\ s[Len(s)] = " " THEN trimEnd(SubSeq(s, 1, Len(s) - 1)) ELSE s

\* String.prototype.trim
trim(s) == trimEnd(trimStart(s))

\* replace(/\s+/g, "-")
RECURSIVE replaceSpaces(_)
replaceSpaces(s) ==
    IF s = <<>> THEN <<>>
    ELSE IF s[1] = " " THEN <<"-">> \o replaceSpaces(trimStart(s))
    ELSE <<s[1]>> \o replaceSpaces(Tail(s))

\* String.prototype.indexOf + 1 (0 when ch does not occur)
indexOf(s, ch) ==
    IF \E i \in DOMAIN s : s[i] = ch
    THEN CHOOSE i \in DOMAIN s : s[i] = ch /\ \A j \in 1..(i - 1) : s[j] # ch
    ELSE 0

\* s.split(ch)[0]
splitFirst(s, ch) == IF indexOf(s, ch) = 0 THEN s ELSE SubSeq(s, 1, indexOf(s, ch) - 1)

\* alias.replace(/[^a-z0-9-]/gi, "").slice(0, 64).toLowerCase() || random hex
localPartOf(alias, hex) ==
    LET kept == SelectSeq(alias, LocalChar)
        cut == SubSeq(kept, 1, IF Len(kept) < LocalPartMax THEN Len(kept) ELSE LocalPartMax)
        lower == toLowerCase(cut)
    IN  IF lower = <<>> THEN hex ELSE lower

emailOf(alias, hex) == localPartOf(alias, hex) \o <<"@">> \o INBOUND_DOMAIN

\* toField.match(/<([^>]+)>/): the text between the first "<" and the next
\* ">" when there is one (a To field holds at most one "<")
addrOf(toField) ==
    LET i == indexOf(toField, "<")
        rest == SubSeq(toField, i + 1, Len(toField))
        j == indexOf(rest, ">")
    IN  IF i > 0 /\ j > 1 THEN SubSeq(rest, 1, j - 1) ELSE toField

\* the key POST /inbound looks the session up by
inboundLocal(to) == toLowerCase(splitFirst(addrOf(trim(splitFirst(to, ","))), "@"))

\* Map.prototype.has / get on relay.sessions: the index of the entry, or 0
sessionIndex(alias) ==
    IF \E i \in DOMAIN relay.sessions : relay.sessions[i].alias = alias
    THEN CHOOSE i \in DOMAIN relay.sessions : relay.sessions[i].alias = alias
    ELSE 0

\* listeners.get(alias), the empty set when there is no entry
listenersOf(alias) ==
    UNION {e.set : e \in {x \in relay.listeners : x.alias = alias}}

addListener(alias, c) ==
    {e \in relay.listeners : e.alias # alias}
        \cup {[alias |-> alias, set |-> listenersOf(alias) \cup {c}]}

\* removeListener that leaves the Map as it is
removeListenerNoop(alias, c) == relay.listeners

removeListener(alias, c) ==
    IF ~\E e \in relay.listeners : e.alias = alias THEN relay.listeners
    ELSE {e \in relay.listeners : e.alias # alias}
            \cup (IF listenersOf(alias) \ {c} = {} THEN {}
                  ELSE {[alias |-> alias, set |-> listenersOf(alias) \ {c}]})

\* what pushEvent(alias, event, data) leaves in the written streams
pushEvent(alias, event, data) ==
    [c \in Clients |->
        IF c \in listenersOf(alias)
        THEN Append(relay.sent[c], [event |-> event, data |-> data])
        ELSE relay.sent[c]]

\* POST /api/session; rnd is what randomNameAlias returns, hex the random
\* hex local part
PostSession(aliasInput, rnd, hex) ==
    /\ LET aliasIn == trim(aliasInput)
           alias == replaceSpaces(IF aliasIn # <<>> THEN aliasIn ELSE rnd)
           email == emailOf(alias, hex)
       IN  IF sessionIndex(alias) # 0
           THEN relay' = [relay EXCEPT !.out = [code |-> 409, alias |-> <<>>,
                                                email |-> <<>>, messages |-> <<>>]]
           ELSE /\ Len(relay.sessions) < MaxSessions
                /\ relay' = [relay EXCEPT
                       !.sessions = Append(@, [alias |-> alias, email |-> email,
                                               messages |-> <<>>]),
                       !.out = [code |-> 200, alias |-> alias, email |-> email,
                                messages |-> <<>>]]
    /\ UNCHANGED <<svcVars, tallyVars, conc, auth, bridge>>

\* GET /api/messages/:alias
GetMessages(alias) ==
    /\ relay' = [relay EXCEPT !.out =
           [code |-> 200, alias |-> alias, email |-> <<>>,
            messages |-> IF sessionIndex(alias) = 0 THEN <<>>
                         ELSE relay.sessions[sessionIndex(alias)].messages]]
    /\ UNCHANGED <<svcVars, tallyVars, conc, auth, bridge>>

\* GET /api/stream/:alias on the connection c
Stream(alias, c) ==
    /\ relay.conn[c].state = "none"
    /\ LET i == sessionIndex(alias)
           backlog == IF i = 0 THEN <<>> ELSE relay.sessions[i].messages
       IN  relay' = [relay EXCEPT
               !.sent[c] = IF backlog # <<>>
                           THEN Append(@, [event |-> "backlog", data |-> backlog])
                           ELSE @,
               !.listeners = addListener(alias, c),
               !.conn[c] = [state |-> "open", alias |-> alias]]
    /\ UNCHANGED <<svcVars, tallyVars, conc, auth, bridge>>

\* req.on("close") of the connection c
Close(c) ==
    /\ relay.conn[c].state = "open"
    /\ relay' = [relay EXCEPT !.listeners = removeListener(relay.conn[c].alias, c),
                              !.conn[c].state = "closed"]
    /\ UNCHANGED <<svcVars, tallyVars, conc, auth, bridge>>

\* the raw payload of the webhook
Raw(to, subject) == [To |-> to, Subject |-> subject]

\* the messages stored so far, over all sessions
RECURSIVE storedFrom(_)
storedFrom(i) ==
    IF i > Len(relay.sessions) THEN 0
    ELSE Len(relay.sessions[i].messages) + storedFrom(i + 1)

\* POST /inbound (no webhook credentials configured)
Inbound(to, subject) ==
    /\ LET alias == inboundLocal(to)
           i == sessionIndex(alias)
       IN  IF i = 0
           THEN relay' = [relay EXCEPT !.out = [code |-> 200, alias |-> <<>>,
                                                email |-> <<>>, messages |-> <<>>]]
           ELSE /\ storedFrom(1) < MaxMessages
                /\ relay' = [relay EXCEPT
                       !.sessions[i].messages = Append(@, Raw(to, subject)),
                       !.sent = pushEvent(alias, "email", <<Raw(to, subject)>>),
                       !.out = [code |-> 200, alias |-> <<>>, email |-> <<>>,
                                messages |-> <<>>]]
    /\ UNCHANGED <<svcVars, tallyVars, conc, auth, bridge>>

\* aliases a client supplies: none, lower case, capitals, blanks and a dot
AliasInputs == {<<>>, <<"b", "o", "b">>, <<"B", "o", "b">>,
                <<" ", "b", ".", " ", "o", "b">>}
\* aliases randomNameAlias returns: first-last and an optional number
RandomAliases == {<<"J", "o", "r", "d", "a", "n", "-", "W", "r", "i", "g", "h", "t",
                    "4", "8", "2">>}
RandomHex == {<<"9", "f", "0", "c", "2", "a", "7", "e">>}
\* the payloads differ: the n-th stored message has subject n
Subjects == 1..MaxMessages

\* the aliases of the sessions, and the keys /inbound computes for them
StreamAliases ==
    {relay.sessions[i].alias : i \in DOMAIN relay.sessions}
    \cup {inboundLocal(relay.sessions[i].email) : i \in DOMAIN relay.sessions}

\* To fields: the email of a session, bare and with a display name, and an
\* address of no session
ToFields ==
    {relay.sessions[i].email : i \in DOMAIN relay.sessions}
    \cup {<<"B", "o", "b", " ", "<">> \o relay.sessions[i].email \o <<">">> :
             i \in DOMAIN relay.sessions}
    \cup {<<"n", "o", "b", "o", "d", "y", "@">> \o INBOUND_DOMAIN}

NextRelay ==
    \/ \E a \in AliasInputs, rnd \in RandomAliases, hex \in RandomHex : PostSession(a, rnd, hex)
    \/ \E a \in StreamAliases : GetMessages(a)
    \/ \E a \in StreamAliases, c \in Clients : Stream(a, c)
    \/ \E c \in Clients : Close(c)
    \/ \E to \in ToFields : Inbound(to, storedFrom(1) + 1)

SpecRelay == Init /\ [][NextRelay]_vars

----------------------------------------------------------------------------
(* /auth and /auth/2 of the ratification service: the per-name failure       *)
(* counters FAILED and the lockout.  auth.now is Date.now(); it moves in     *)
(* steps of TickMs, and any number of requests can be handled between two    *)
(* steps.  The rate limiter in front of the two routes is a library that     *)
(* answers by itself; the requests here are those it lets through.           *)

MAX_FAIL == 5
LOCKOUT_MS == 30 * 60 * 1000
\* the age after which isLocked drops an entry
STALE_MS == 60 * 60 * 1000
TickMs == 15 * 60 * 1000

registerFail(F, name, now) ==
    LET F1 == IF F[name] = <<>>
              THEN [F EXCEPT ![name] = <<[count |-> 0, firstTs |-> now, lockedUntil |-> 0]>>]
              ELSE F
        rec == F1[name][1]
    IN  IF rec.lockedUntil # 0 /\ now < rec.lockedUntil THEN F1
        ELSE [F1 EXCEPT ![name] =
                <<[rec EXCEPT !.count = rec.count + 1,
                              !.lockedUntil = IF rec.count + 1 >= MAX_FAIL
                                              THEN now + LOCKOUT_MS ELSE @]>>]

clearFails(F, name) == [F EXCEPT ![name] = <<>>]

\* isLocked that drops a stale entry before it looks at the lock
isLockedStaleFirst(F, name, now) ==
    IF F[name] = <<>> THEN [locked |-> FALSE, FAILED |-> F]
    ELSE LET rec == F[name][1]
         IN  IF now - rec.firstTs > STALE_MS
             THEN [locked |-> FALSE, FAILED |-> [F EXCEPT ![name] = <<>>]]
             ELSE IF rec.lockedUntil # 0 /\ now < rec.lockedUntil
             THEN [locked |-> TRUE, FAILED |-> F]
             ELSE [locked |-> FALSE, FAILED |-> F]

\* isLocked(name): what it returns and what it leaves in FAILED
isLocked(F, name, now) ==
    IF F[name] = <<>> THEN [locked |-> FALSE, FAILED |-> F]
    ELSE LET rec == F[name][1]
         IN  IF rec.lockedUntil # 0 /\ now < rec.lockedUntil
             THEN [locked |-> TRUE, FAILED |-> F]
             ELSE IF now - rec.firstTs > STALE_MS
             THEN [locked |-> FALSE, FAILED |-> [F EXCEPT ![name] = <<>>]]
             ELSE [locked |-> FALSE, FAILED |-> F]

\* the answers of the two routes
Ok200(message) == Outcome(TRUE, load, Response(200, "", message, NoCandidate))

\* POST /auth: the FAILED it leaves and its outcome
postAuth(memberName, pin) ==
    IF memberName = "" \/ pin = ""
    THEN [FAILED |-> auth.FAILED, o |-> Early(400, "memberName and pin required")]
    ELSE LET l == isLocked(auth.FAILED, memberName, auth.now)
             d == load
         IN  IF l.locked THEN [FAILED |-> l.FAILED, o |-> Early(429, "locked")]
             ELSE IF ~hasMember(d, memberName)
             THEN [FAILED |-> l.FAILED, o |-> Reject(404, "member not found")]
             ELSE LET m == CHOOSE x \in {d.members[i] : i \in DOMAIN d.members} :
                                x.name = memberName
                  IN  IF ~compareSync(pin, m.pinHash)
                      THEN [FAILED |-> registerFail(l.FAILED, memberName, auth.now),
                            o |-> Reject(401, "invalid pin")]
                      ELSE [FAILED |-> clearFails(l.FAILED, memberName),
                            o |-> Ok200(IF memberName = "Daniel" THEN "need2fa" ELSE "ok")]

\* POST /auth/2
postAuth2(memberName, secondary) ==
    IF memberName = "" \/ secondary = ""
    THEN [FAILED |-> auth.FAILED, o |-> Early(400, "memberName and secondary required")]
    ELSE IF memberName # "Daniel"
    THEN [FAILED |-> auth.FAILED, o |-> Early(400, "not applicable")]
    ELSE LET l == isLocked(auth.FAILED, memberName, auth.now)
         IN  IF l.locked THEN [FAILED |-> l.FAILED, o |-> Early(429, "locked")]
             ELSE IF secondary # SECRET
             THEN [FAILED |-> registerFail(l.FAILED, memberName, auth.now),
                   o |-> Early(401, "invalid secondary")]
             ELSE [FAILED |-> clearFails(l.FAILED, memberName),
                   o |-> Outcome(FALSE, load, Response(200, "", "ok", NoCandidate))]

lockedUntilOf(F, name) == IF F[name] = <<>> THEN 0 ELSE F[name][1].lockedUntil

\* auth after a request for name left FAILED as F and was answered with code
Answered(F, name, code, isPin) ==
    IF name \notin AuthNames THEN auth
    ELSE IF code = 401
    THEN LET locks == lockedUntilOf(F, name) # lockedUntilOf(auth.FAILED, name)
         IN  [auth EXCEPT
                !.FAILED = F,
                !.streak[name] = @ + 1,
                !.streakStart[name] = IF auth.streak[name] = 0 THEN auth.now ELSE @,
                !.fifthAt[name] = IF auth.streak[name] + 1 = MAX_FAIL THEN auth.now ELSE @,
                !.fresh[name] = IF locks THEN 0 ELSE @ + 1,
                !.lockFails[name] = IF locks THEN auth.fresh[name] + 1 ELSE @]
    ELSE IF code = 200
    THEN [auth EXCEPT !.FAILED = F,
                      !.streak[name] = 0,
                      !.fresh[name] = 0,
                      !.pinPassed = @ \/ (isPin /\ name = "Daniel")]
    ELSE [auth EXCEPT !.FAILED = F]

\* the PIN of a bootstrap member
pinOf(name) ==
    (CHOOSE x \in {BootstrapRaw[i] : i \in DOMAIN BootstrapRaw} : x.name = name).pin

\* pin is the PIN of the bootstrap member memberName
goodPin(memberName, pin) ==
    /\ memberName \in {BootstrapRaw[i].name : i \in DOMAIN BootstrapRaw}
    /\ pin = pinOf(memberName)

Auth(memberName, pin) ==
    /\ LET r == postAuth(memberName, pin)
       IN  /\ Apply(r.o)
           /\ auth' = [Answered(r.FAILED, memberName, r.o.res.code, TRUE)
                          EXCEPT !.lastGood = goodPin(memberName, pin)]
    /\ UNCHANGED <<tallyVars, conc, relay, bridge>>

Auth2(memberName, secondary) ==
    /\ LET r == postAuth2(memberName, secondary)
       IN  /\ Apply(r.o)
           /\ auth' = [Answered(r.FAILED, memberName, r.o.res.code, FALSE)
                          EXCEPT !.lastGood = (memberName = "Daniel" /\ secondary = SECRET)]
    /\ UNCHANGED <<tallyVars, conc, relay, bridge>>

\* time passes
AuthTick ==
    /\ auth.now < MaxTicks * TickMs
    /\ auth' = [auth EXCEPT !.now = @ + TickMs]
    /\ UNCHANGED <<svcVars, tallyVars, conc, relay, bridge>>

\* bodies of POST /auth: right and wrong PIN of two members, a name that is
\* no member, and the two malformed kinds ("" is a missing field)
AuthRequests ==
    UNION {{<<n, pinOf(n)>>, <<n, "0000">>} : n \in {"Daniel", "David"}}
    \cup {<<"Mallory", "0000">>, <<"", "0000">>, <<"David", "">>}

\* bodies of POST /auth/2
Auth2Requests ==
    {<<"Daniel", SECRET>>, <<"Daniel", "000000000000000">>, <<"David", SECRET>>,
     <<"", SECRET>>, <<"Daniel", "">>}

\* the requests of a run: those about its subject, about no member, and
\* the malformed ones
AboutSubject(r) == r[1] \in {auth.subject, "Mallory", ""}

InitAuth ==
    /\ fileExists = FALSE
    /\ members = <<>>
    /\ candidates = <<>>
    /\ res = NoResponse
    /\ tc = IdleCandidate
    /\ tc0 = IdleCandidate
    /\ tm = <<>>
    /\ tm0 = <<>>
    /\ thist = <<>>
    /\ conc = IdleConc
    /\ relay = IdleRelay
    /\ \E n \in {"Daniel", "David"} : auth = [IdleAuth EXCEPT !.subject = n]
    /\ bridge = IdleBridge

NextAuth ==
    \/ \E r \in AuthRequests : AboutSubject(r) /\ Auth(r[1], r[2])
    \/ \E r \in Auth2Requests : AboutSubject(r) /\ Auth2(r[1], r[2])
    \/ AuthTick

SpecAuth == InitAuth /\ [][NextAuth]_vars

----------------------------------------------------------------------------
(* The mailbox bridge (src/unnamed/part_000, first program): the session     *)
(* store.  bridge.sessions is the Map token -> session as a set of entries,  *)
(* bridge.now is Date.now() and moves in steps of BridgeTickMs, the prune    *)
(* timer runs every PRUNE_MS (bridge.pruned is the time of its last run).    *)
(* Of the requests so far: issuedAt is when /api/login returned each token,  *)
(* loggedOut the tokens /api/logout has deleted; out is the last status.     *)

SESSION_TTL_MIN == 30
PRUNE_MS == 60 * 1000
BridgeTickMs == 30 * 1000

\* sessions.has(token)
hasSession(token) == \E e \in bridge.sessions : e.token = token

\* POST /api/login with both fields; imapOk: the IMAP login and the opening
\* of INBOX succeeded.  randomUUID returns a token not returned before.
Login(imapOk, token) ==
    /\ bridge.issuedAt[token] < 0
    /\ bridge' = IF imapOk
                 THEN [bridge EXCEPT
                         !.sessions = @ \cup {[token |-> token, createdAt |-> bridge.now]},
                         !.issuedAt[token] = bridge.now,
                         !.out = 200]
                 ELSE [bridge EXCEPT !.out = 401]
    /\ UNCHANGED <<svcVars, tallyVars, conc, relay, auth>>

\* a route behind requireSession (messages, send) asked for with the bearer
\* token: 401, or next() and the route's answer
Guarded(token) ==
    /\ bridge' = [bridge EXCEPT !.out = IF hasSession(token) THEN 200 ELSE 401]
    /\ UNCHANGED <<svcVars, tallyVars, conc, relay, auth>>

\* POST /api/logout
Logout(token) ==
    /\ bridge' = IF hasSession(token)
                 THEN [bridge EXCEPT
                         !.sessions = {e \in @ : e.token # token},
                         !.loggedOut = @ \cup {token},
                         !.out = 200]
                 ELSE [bridge EXCEPT !.out = 401]
    /\ UNCHANGED <<svcVars, tallyVars, conc, relay, auth>>

\* the prune timer is due and has not run at this time
PruneDue == bridge.now > 0 /\ bridge.now % PRUNE_MS = 0 /\ bridge.pruned # bridge.now

\* the setInterval callback
Prune ==
    /\ PruneDue
    /\ bridge' = [bridge EXCEPT
           !.sessions = {e \in @ : ~(bridge.now - e.createdAt > SESSION_TTL_MIN * 60000)},
           !.pruned = bridge.now]
    /\ UNCHANGED <<svcVars, tallyVars, conc, relay, auth>>

\* time passes; a timer that is due runs first
BridgeTick ==
    /\ ~PruneDue
    /\ bridge.now < MaxBridgeTicks * BridgeTickMs
    /\ bridge' = [bridge EXCEPT !.now = @ + BridgeTickMs]
    /\ UNCHANGED <<svcVars, tallyVars, conc, relay, auth>>

\* the bearer tokens of requests: those newToken returns and a made-up one
BearerTokens == Tokens \cup {"forged"}

NextBridge ==
    \/ \E imapOk \in BOOLEAN, t \in Tokens : Login(imapOk, t)
    \/ \E t \in BearerTokens : Guarded(t)
    \/ \E t \in BearerTokens : Logout(t)
    \/ Prune
    \/ BridgeTick

SpecBridge == Init /\ [][NextBridge]_vars

----------------------------------------------------------------------------
(* The tally on its own: recomputeStatus applied to any candidate and any    *)
(* roster.  The vote map may have keys outside the roster.                   *)

TallyNames == {"Daniel", "David", "Eve"}

\* rosters of at most MaxRoster members, no name twice
TallyRosters ==
    {r \in UNION {[1..n -> TallyNames] : n \in 0..MaxRoster} :
        \A i, j \in DOMAIN r : r[i] = r[j] => i = j}

TallyVotes == UNION {[K -> BOOLEAN] : K \in SUBSET TallyNames}

InitTally ==
    /\ fileExists = FALSE
    /\ members = <<>>
    /\ candidates = <<>>
    /\ res = NoResponse
    /\ \E r \in TallyRosters :
          tm = [i \in DOMAIN r |-> [name |-> r[i], pinHash |-> hashSync("9999")]]
    /\ tc \in [votes : TallyVotes, status : Statuses, ratified : BOOLEAN,
               totalMembers : 0..MaxRoster]
    /\ tc0 = tc
    /\ tm0 = tm
    /\ thist = <<>>
    /\ conc = IdleConc
    /\ relay = IdleRelay
    /\ auth = IdleAuth
    /\ bridge = IdleBridge

\* recomputeStatus(tc, tm): the call can write only to the candidate
Recompute ==
    /\ Len(thist) < MaxApply
    /\ tc' = recomputeStatus(tc, tm)
    /\ thist' = Append(thist, tc')
    /\ UNCHANGED <<tm, tc0, tm0>>
    /\ UNCHANGED <<svcVars, otherVars>>

NextTally == Recompute

SpecTally == InitTally /\ [][NextTally]_vars

\* PATCH setStatus on the candidate tc with the roster tm: the status is
\* written, the votes are rewritten, then recomputeStatus runs
ForceStatus(status) ==
    /\ Len(thist) < MaxApply
    /\ tc' = recomputeStatus(setStatus(tc, memberNamesOf(tm), status), tm)
    /\ thist' = Append(thist, tc')
    /\ UNCHANGED <<tm, tc0, tm0>>
    /\ UNCHANGED <<svcVars, otherVars>>

NextForce ==
    \/ Recompute
    \/ \E status \in {"banned", "allowed"} : ForceStatus(status)

SpecForce == InitTally /\ [][NextForce]_vars

----------------------------------------------------------------------------
(* Claims about the tally, checked under SpecTally *)

TallyApplied == Len(thist) >= 1
TallyRosterNames == {tm0[i].name : i \in DOMAIN tm0}

\* C2: for a roster of at least one member, when every roster member maps to
\* true in the vote map, recomputeStatus yields status banned, ratified true.
C2_AllYesBanned ==
    (/\ TallyApplied
     /\ Len(tm0) >= 1
     /\ \A n \in TallyRosterNames : ObjIs(tc0.votes, n, TRUE))
    => (thist[1].status = "banned" /\ thist[1].ratified = TRUE)

\* a unanimous yes with a further entry from outside the roster, on a
\* candidate that was not banned before
C2_Witness ==
    /\ TallyApplied
    /\ Len(tm0) = MaxRoster
    /\ \A n \in TallyRosterNames : ObjIs(tc0.votes, n, TRUE)
    /\ DOMAIN tc0.votes # TallyRosterNames
    /\ tc0.status = "allowed"
    /\ thist[1].status = "banned"

\* C3 as stated: every roster member has an entry and all entries of the
\* vote map are false, whatever its key set, gives allowed / not ratified.
C3_Original ==
    (/\ TallyApplied
     /\ Len(tm0) >= 1
     /\ TallyRosterNames \subseteq DOMAIN tc0.votes
     /\ \A k \in DOMAIN tc0.votes : tc0.votes[k] = FALSE)
    => (thist[1].status = "allowed" /\ thist[1].ratified = FALSE)

\* C3 amended: when the keys of the vote map are exactly the roster names
\* (roster of at least one member) and all entries are false, recomputeStatus
\* yields allowed / not ratified.
C3_AllNoAllowed ==
    (/\ TallyApplied
     /\ Len(tm0) >= 1
     /\ TallyRosterNames = DOMAIN tc0.votes
     /\ \A k \in DOMAIN tc0.votes : tc0.votes[k] = FALSE)
    => (thist[1].status = "allowed" /\ thist[1].ratified = FALSE)

C3_Witness ==
    /\ TallyApplied
    /\ Len(tm0) = MaxRoster
    /\ TallyRosterNames = DOMAIN tc0.votes
    /\ \A k \in DOMAIN tc0.votes : tc0.votes[k] = FALSE
    /\ tc0.status = "banned"
    /\ thist[1].status = "allowed"

\* C4: when at least one roster member has no entry in the vote map,
\* recomputeStatus yields pending / not ratified whatever the entries are;
\* so a banned or allowed result has an entry for every roster member.
C4_PartialPending ==
    TallyApplied =>
        /\ (\E n \in TallyRosterNames : n \notin DOMAIN tc0.votes)
              => (thist[1].status = "pending" /\ thist[1].ratified = FALSE)
        /\ thist[1].status \in {"banned", "allowed"}
              => TallyRosterNames \subseteq DOMAIN tc0.votes

\* one member has voted yes, the other has not voted, and the candidate
\* was stored as banned
C4_Witness ==
    /\ TallyApplied
    /\ Len(tm0) = MaxRoster
    /\ \E n \in TallyRosterNames : n \notin DOMAIN tc0.votes
    /\ \E n \in TallyRosterNames : ObjIs(tc0.votes, n, TRUE)
    /\ tc0.status = "banned"
    /\ thist[1].status = "pending"

\* C10: a second application of recomputeStatus changes nothing (status,
\* ratified, totalMembers as after the first), and no application changes
\* the votes of the candidate or the roster.
C10_Idempotent ==
    /\ Len(thist) = 2 =>
          /\ thist[2].status = thist[1].status
          /\ thist[2].ratified = thist[1].ratified
          /\ thist[2].totalMembers = thist[1].totalMembers
    /\ \A k \in DOMAIN thist : thist[k].votes = tc0.votes
    /\ tc.votes = tc0.votes
    /\ tm = tm0

\* two applications to a candidate whose stored fields were all stale
C10_Witness ==
    /\ Len(thist) = 2
    /\ thist[1].status = "banned"
    /\ tc0.status = "pending"
    /\ tc0.totalMembers # Len(tm0)
    /\ tc0.votes # EmptyObj

----------------------------------------------------------------------------
(* Claims about the service, checked under Spec *)

RosterNames(ms) == {ms[i].name : i \in DOMAIN ms}
Stored(id) == findIndex(load.candidates, id) # 0
Banned(i) == candidates[i].status = "banned" /\ candidates[i].ratified = TRUE

\* C1: in every persisted state, status and ratified of each stored
\* candidate are what recomputeStatus derives from its votes and the roster.
C1_StatusDerived ==
    \A i \in DOMAIN candidates :
        LET r == recomputeStatus(candidates[i], members)
        IN  /\ candidates[i].status = r.status
            /\ candidates[i].ratified = r.ratified

\* a candidate decided by a vote of the roster enlarged by a member-add
C1_Witness ==
    /\ Len(members) > Len(BootstrapRaw)
    /\ res.message = "vote recorded"
    /\ \E i \in DOMAIN candidates :
          /\ candidates[i].status = "allowed"
          /\ res.candidate = <<candidates[i]>>

\* C5 as stated: setStatus banned / allowed on a stored candidate writes a
\* vote for exactly the roster names, all true / all false, and the stored
\* and returned status is the requested one (ratified iff banned).
C5_Original ==
    [][\A id \in Ids, st \in {"banned", "allowed"} :
          (Stored(id) /\ PatchCandidate(id, "setStatus", st)) =>
              LET c == candidates'[findIndex(load.candidates, id)]
              IN  /\ DOMAIN c.votes = RosterNames(members')
                  /\ \A n \in DOMAIN c.votes : c.votes[n] = (st = "banned")
                  /\ c.status = st
                  /\ c.ratified = (st = "banned")
                  /\ res'.candidate = <<c>>]_vars

\* C6: reopen, and setStatus with status pending, on a stored candidate
\* leave it with no votes, pending and not ratified, and the two requests
\* leave the same file and give the same response.
C6_ReopenClears ==
    [][\A id \in Ids :
          (/\ Stored(id)
           /\ \/ PatchCandidate(id, "reopen", "")
              \/ PatchCandidate(id, "setStatus", "pending")) =>
              LET c == candidates'[findIndex(load.candidates, id)]
              IN  /\ c.votes = EmptyObj
                  /\ c.status = "pending"
                  /\ c.ratified = FALSE
                  /\ res'.candidate = <<c>>
                  /\ patchCandidate(id, "reopen", "")
                        = patchCandidate(id, "setStatus", "pending")]_vars

\* the response of a reopen or setStatus pending
C6_Witness ==
    /\ res.message = "updated"
    /\ Len(res.candidate) = 1
    /\ res.candidate[1].votes = EmptyObj
    /\ res.candidate[1].status = "pending"
    /\ res.candidate[1] \in {candidates[i] : i \in DOMAIN candidates}
    /\ Len(members) > Len(BootstrapRaw)

\* C7: a request answered with an error leaves the members and candidates
\* that load() returns as they were.
C7_RejectNoMutation ==
    [][res'.code >= 400 => load' = load]_vars

\* a vote rejected for an unknown member on a candidate that has votes
C7_Witness ==
    /\ res.code = 400
    /\ res.error = "member not recognized"
    /\ \E i \in DOMAIN candidates : candidates[i].votes # EmptyObj

\* C8 is checked under SpecVoting, where no admin action is ever applied.
\* C8 as stated: a banned candidate stays banned through every vote and
\* member-add request.
C8_Original ==
    [][\A i \in DOMAIN candidates :
          (/\ Banned(i)
           /\ \/ \E r \in VoteRequests : PostVote(r[1], r[2], r[3])
              \/ \E name \in MemberNameInputs, pin \in Pins : PostMembers(name, pin))
          => (i \in DOMAIN candidates' /\ Banned(i)')]_vars

\* C8 amended: a banned candidate stays banned through every vote request
\* that does not record a no vote on it and through every rejected
\* member-add request.
C8_BanWhileUnanimous ==
    [][\A i \in DOMAIN candidates :
          (/\ Banned(i)
           /\ \/ \E r \in VoteRequests :
                    /\ PostVote(r[1], r[2], r[3])
                    /\ ~(r[3] = "false" /\ findIndex(candidates, r[1]) = i)
              \/ \E name \in MemberNameInputs, pin \in Pins :
                    PostMembers(name, pin) /\ res'.code >= 400)
          => (i \in DOMAIN candidates' /\ Banned(i)')]_vars

\* a yes vote recorded on a candidate that is banned by votes of an
\* enlarged roster
C8_Witness ==
    /\ res.message = "vote recorded"
    /\ Len(members) > Len(BootstrapRaw)
    /\ \E i \in DOMAIN candidates : Banned(i) /\ res.candidate = <<candidates[i]>>

NoDupNames(ms) == \A i, j \in DOMAIN ms : ms[i].name = ms[j].name => i = j
MembersKept == \A i \in DOMAIN members : i \in DOMAIN members' /\ members'[i] = members[i]

\* C9 as stated: a member stays in the roster with the same pinHash in
\* every later state, and no two roster entries share a name.
C9_Original ==
    [][NoDupNames(members') /\ MembersKept]_vars

\* C9 amended: no two roster entries share a name, and every request other
\* than an authorized POST /admin/reset keeps every member in the roster
\* with the same pinHash; the reset puts the bootstrap roster back.
C9_MembersKeptUntilReset ==
    [][/\ NoDupNames(members')
       /\ \/ MembersKept
          \/ AdminReset(SECRET) /\ members' = bootstrapData.members]_vars

\* a member-add refused for an added member's name
C9_Witness ==
    /\ Len(members) > Len(BootstrapRaw)
    /\ res.code = 409
    /\ res.error = "member exists"
    /\ Len(candidates) > 0

----------------------------------------------------------------------------
(* Further claims about the service, checked under Spec *)

\* C14: in every persisted state totalMembers of each stored candidate is
\* the size of the current roster, and a successful POST /members raises
\* totalMembers of every stored candidate by one.
C14_TotalMembersCurrent ==
    [][/\ \A i \in DOMAIN candidates' : candidates'[i].totalMembers = Len(members')
       /\ \A name \in MemberNameInputs, pin \in Pins :
             (res'.message = "member added" /\ PostMembers(name, pin)) =>
                 /\ Len(candidates') = Len(load.candidates)
                 /\ \A i \in DOMAIN candidates' :
                       candidates'[i].totalMembers
                          = load.candidates[i].totalMembers + 1]_vars

\* a member was added while a candidate was stored
C14_Witness ==
    /\ res.message = "member added"
    /\ Len(members) = Len(BootstrapRaw) + 1
    /\ \E i \in DOMAIN candidates :
          /\ candidates[i].totalMembers = Len(BootstrapRaw) + 1
          /\ candidates[i].votes # EmptyObj

\* C18: right after a successful POST /members every stored candidate is
\* pending and not ratified, and none has a vote of the new member.
C18_MemberAddReopens ==
    [][\A name \in MemberNameInputs, pin \in Pins :
          (res'.message = "member added" /\ PostMembers(name, pin)) =>
              \A i \in DOMAIN candidates' :
                  /\ candidates'[i].status = "pending"
                  /\ candidates'[i].ratified = FALSE
                  /\ name \notin DOMAIN candidates'[i].votes]_vars

\* a member was added while a candidate had a yes vote of every bootstrap
\* member (it was banned)
C18_Witness ==
    /\ res.message = "member added"
    /\ \E i \in DOMAIN candidates :
          /\ \A n \in BootstrapNames : ObjIs(candidates[i].votes, n, TRUE)
          /\ candidates[i].status = "pending"

\* C19: the keys of every stored vote map are roster names and every value
\* is a boolean.
C19_VotesOfMembers ==
    \A i \in DOMAIN candidates :
        /\ DOMAIN candidates[i].votes \subseteq RosterNames(members)
        /\ \A k \in DOMAIN candidates[i].votes : candidates[i].votes[k] \in BOOLEAN

\* a vote of an added member is stored
C19_Witness ==
    /\ res.message = "vote recorded"
    /\ \E i \in DOMAIN candidates :
          /\ "Eve" \in DOMAIN candidates[i].votes
          /\ "Daniel" \in DOMAIN candidates[i].votes

\* C20 as stated: a successful POST /vote of member m on candidate c stores
\* the submitted value as c.votes[m] and changes no other vote of c, no
\* other candidate and no member.
C20_Original ==
    [][\A r \in VoteRequests :
          (res'.message = "vote recorded" /\ PostVote(r[1], r[2], r[3])) =>
              LET i == findIndex(load.candidates, r[1])
                  old == load.candidates[i].votes
                  new == candidates'[i].votes
              IN  /\ ObjIs(new, r[2], r[3] = "true")
                  /\ DOMAIN new = DOMAIN old \cup {r[2]}
                  /\ \A k \in DOMAIN old \ {r[2]} : new[k] = old[k]
                  /\ Len(candidates') = Len(load.candidates)
                  /\ \A j \in DOMAIN candidates' \ {i} :
                        candidates'[j] = load.candidates[j]
                  /\ members' = load.members]_vars

----------------------------------------------------------------------------
(* Claims about several candidates, checked under SpecPair *)

SameNameIgnoringCase(a, b) ==
    /\ toLowerCase(a.firstName) = toLowerCase(b.firstName)
    /\ toLowerCase(a.lastInitial) = toLowerCase(b.lastInitial)

\* C11 as stated: no two stored candidates have the same first name and
\* last initial compared without case.
C11_Original ==
    \A i, j \in DOMAIN candidates :
        SameNameIgnoringCase(candidates[i], candidates[j]) => i = j

\* C12 as stated: no two stored candidates have the same id.
C12_Original ==
    \A i, j \in DOMAIN candidates : candidates[i].id = candidates[j].id => i = j

\* C16 as stated: delete on a stored candidate leaves no candidate with
\* that id, and leaves the roster and every other candidate, in order.
C16_Original ==
    [][\A id \in Ids :
          (Stored(id) /\ PatchCandidate(id, "delete", "")) =>
              /\ \A i \in DOMAIN candidates' : candidates'[i].id # id
              /\ members' = load.members
              /\ candidates'
                    = splice1(load.candidates, findIndex(load.candidates, id))]_vars

----------------------------------------------------------------------------
(* The tally with an empty roster, checked under SpecForce *)

\* C15: with an empty roster every result of recomputeStatus is pending and
\* not ratified, for every vote map, also when the call ends an admin
\* setStatus to banned or allowed.
C15_EmptyRosterPending ==
    tm0 = <<>> =>
        \A k \in DOMAIN thist :
            thist[k].status = "pending" /\ thist[k].ratified = FALSE

\* an empty roster, a banned candidate with votes, and a setStatus that
\* emptied the vote map and ended pending
C15_Witness ==
    /\ tm0 = <<>>
    /\ TallyApplied
    /\ tc0.status = "banned"
    /\ tc0.ratified = TRUE
    /\ tc0.votes # EmptyObj
    /\ thist[1].votes = EmptyObj
    /\ thist[1].status = "pending"

----------------------------------------------------------------------------
(* Concurrent requests, checked under SpecConc *)

\* the contents the file can have after the requests of S ran one after the
\* other, in any order, from the file d
RECURSIVE SerialResults(_, _)
SerialResults(d, S) ==
    IF S = {} THEN {d}
    ELSE UNION {SerialResults(postVoteOn(d, r[1], r[2], r[3]).file, S \ {r}) : r \in S}

Quiescent == conc.todo = {} /\ conc.active = {}

\* C13: whenever no handler is running, the file is what some serial order
\* of the handled requests leaves; and when all requests are handled, two
\* votes of different members on the stored candidate are both in its map
\* (each member's entry is a vote that member cast).
C13_Serializable ==
    /\ conc.active = {} =>
          [members |-> members, candidates |-> candidates]
              \in SerialResults(conc.file0, conc.done)
    /\ Quiescent =>
          \A r1, r2 \in conc.done :
              (/\ r1[1] = ConcId /\ r2[1] = ConcId
               /\ r1[2] \in {"Daniel", "David"} /\ r2[2] \in {"Daniel", "David"}
               /\ r1[2] # r2[2])
              => \A r \in {r1, r2} :
                    \E q \in conc.done :
                        /\ q[1] = ConcId /\ q[2] = r[2]
                        /\ ObjIs(candidates[1].votes, r[2], q[3] = "true")

\* two votes of different members issued together, both handled, both stored
C13_Witness ==
    /\ Quiescent
    /\ conc.done = {<<ConcId, "Daniel", "true">>, <<ConcId, "David", "false">>}
    /\ ObjIs(candidates[1].votes, "Daniel", TRUE)
    /\ ObjIs(candidates[1].votes, "David", FALSE)
    /\ conc.file0.candidates[1].votes = EmptyObj

----------------------------------------------------------------------------
(* The alias relay, checked under SpecRelay *)

\* C17 as stated: for every session POST /api/session created, a POST /inbound
\* whose To address is the email returned for it appends the payload to the
\* messages of that session and writes an email event to every listener of
\* its alias.
C17_Original ==
    [][\A i \in DOMAIN relay.sessions, subject \in Subjects :
          Inbound(relay.sessions[i].email, subject) =>
              LET raw == Raw(relay.sessions[i].email, subject)
              IN  /\ relay'.sessions[i].messages
                        = Append(relay.sessions[i].messages, raw)
                  /\ \A c \in listenersOf(relay.sessions[i].alias) :
                        relay'.sent[c]
                            = Append(relay.sent[c],
                                     [event |-> "email", data |-> <<raw>>])]_vars

----------------------------------------------------------------------------
(* The lockout of /auth and /auth/2, checked under SpecAuth *)

Locked429(r) == r.code = 429 /\ r.error = "locked"

\* the requests for n that carry a credential and that the route applies to n
CredentialRequests(n) ==
    {<<"auth", r[1], r[2]>> : r \in {x \in AuthRequests : x[1] = n /\ x[2] # ""}}
    \cup {<<"auth2", r[1], r[2]>> :
             r \in {x \in Auth2Requests : x[1] = n /\ n = "Daniel" /\ x[2] # ""}}

Handles(q) == IF q[1] = "auth" THEN Auth(q[2], q[3]) ELSE Auth2(q[2], q[3])

\* C21 as stated: once a name has MAX_FAIL failed attempts with no success
\* in between, every request for it with a credential is answered 429 locked
\* until LOCKOUT_MS after the fifth failure.
C21_Original ==
    [][\A n \in {"Daniel", "David"} :
          (auth.streak[n] >= MAX_FAIL /\ auth.now < auth.fifthAt[n] + LOCKOUT_MS) =>
              \A q \in CredentialRequests(n) : Handles(q) => Locked429(res')]_vars

\* C21 amended: once a name has MAX_FAIL failed attempts with no success in
\* between, the fifth no more than an hour after the first, every /auth
\* request with a PIN and every /auth/2 request with a code for Daniel is
\* answered 429 locked until LOCKOUT_MS after the fifth failure, right
\* credential or not; none is answered ok or need2fa, and FAILED is left as
\* it is.
C21_LockedOut ==
    [][\A n \in {"Daniel", "David"} :
          (/\ auth.streak[n] >= MAX_FAIL
           /\ auth.fifthAt[n] - auth.streakStart[n] <= STALE_MS
           /\ auth.now < auth.fifthAt[n] + LOCKOUT_MS) =>
              \A q \in CredentialRequests(n) :
                  Handles(q) => /\ Locked429(res')
                                /\ res'.message \notin {"ok", "need2fa"}
                                /\ auth'.FAILED = auth.FAILED]_vars

\* five failures, a tick later the right credential, answered 429 locked
C21_Witness ==
    /\ auth.streak[auth.subject] >= MAX_FAIL
    /\ auth.fifthAt[auth.subject] - auth.streakStart[auth.subject] <= STALE_MS
    /\ auth.now = auth.fifthAt[auth.subject] + TickMs
    /\ auth.lastGood
    /\ Locked429(res)

\* C22 as stated: a lock is set only by a failure that is at least the
\* MAX_FAIL-th since the last lock or the last success.
C22_Original ==
    \A n \in {"Daniel", "David"} :
        lockedUntilOf(auth.FAILED, n) # 0 => auth.lockFails[n] >= MAX_FAIL

\* C23 as stated: Daniel is answered ok only after /auth has checked his PIN
\* with success.
C23_Original ==
    (auth.subject = "Daniel" /\ res.code = 200 /\ res.message = "ok")
        => auth.pinPassed

----------------------------------------------------------------------------
(* The SSE streams and the session keys of the relay, under SpecRelay *)

\* the messages of a written stream, event after event
RECURSIVE Received(_)
Received(events) ==
    IF events = <<>> THEN <<>> ELSE events[1].data \o Received(Tail(events))

\* the messages stored under the key alias
StoredFor(alias) ==
    IF sessionIndex(alias) = 0 THEN <<>> ELSE relay.sessions[sessionIndex(alias)].messages

\* what a connected client has been written: the messages stored for its
\* alias, each once and in order; a backlog event only as the first event,
\* one message in every email event
StreamComplete ==
    \A c \in Clients :
        relay.conn[c].state = "open" =>
            /\ Received(relay.sent[c]) = StoredFor(relay.conn[c].alias)
            /\ \A k \in DOMAIN relay.sent[c] :
                  IF relay.sent[c][k].event = "backlog" THEN k = 1
                  ELSE /\ relay.sent[c][k].event = "email"
                       /\ Len(relay.sent[c][k].data) = 1

\* the listeners Map holds the connected clients under their alias and no
\* empty set
ListenersExact ==
    /\ \A e \in relay.listeners : e.set # {}
    /\ \A c \in Clients, a \in StreamAliases :
          c \in listenersOf(a) <=> (relay.conn[c].state = "open" /\ relay.conn[c].alias = a)

\* a closed connection is written to no more
ClosedQuiet ==
    \A c \in Clients : relay.conn[c].state = "closed" => relay'.sent[c] = relay.sent[c]

\* C24: a client that stays connected to /api/stream/:alias has received
\* every message stored for the alias exactly once and in arrival order, the
\* earlier ones in one backlog event and each later one in one email event;
\* a closed connection is removed and written to no more, and the listeners
\* Map holds no empty set.
C24_StreamDelivery ==
    /\ [](StreamComplete /\ ListenersExact)
    /\ [][ClosedQuiet]_vars

\* one client was sent a backlog of one message and then an email event,
\* another has closed before the second message and was not written to again
C24_Witness ==
    \E c, c2 \in Clients :
        /\ relay.conn[c].state = "open"
        /\ Len(relay.sent[c]) = 2
        /\ relay.sent[c][1].event = "backlog"
        /\ relay.sent[c][2].event = "email"
        /\ Len(StoredFor(relay.conn[c].alias)) = 2
        /\ relay.conn[c2].state = "closed"
        /\ relay.conn[c2].alias = relay.conn[c].alias
        /\ Len(Received(relay.sent[c2])) = 1

\* C25 as stated: any two sessions have different email addresses.
C25_Original ==
    \A i, j \in DOMAIN relay.sessions :
        relay.sessions[i].email = relay.sessions[j].email => i = j

----------------------------------------------------------------------------
(* The session store of the mailbox bridge, checked under SpecBridge *)

\* requireSession lets the request with this bearer token through
Accepts(token) == (Guarded(token) \/ Logout(token)) /\ bridge'.out = 200

\* C26 as stated: requireSession accepts a bearer token only if /api/login
\* issued it, /api/logout has not deleted it, and it is at most
\* SESSION_TTL_MIN minutes old.
C26_Original ==
    [][\A t \in BearerTokens :
          Accepts(t) =>
              /\ t \in Tokens
              /\ bridge.issuedAt[t] >= 0
              /\ t \notin bridge.loggedOut
              /\ bridge.now - bridge.issuedAt[t] <= SESSION_TTL_MIN * 60000]_vars

====
